---- MODULE Spec2Model ----
(***************************************************************************)
(* A model of scraper_utils.py: the sitemap walker (parse_sitemap and      *)
(* parse_sitemap_links), the article extractor (process_article), the site *)
(* scrapers (scrape_cafef, scrape_vietstock) and run_all_scrapers.         *)
(*                                                                         *)
(* Strings are sequences of one-character strings, so that the regular     *)
(* expressions, the keyword filter and the title clean-up work on          *)
(* characters as the code does.  Instants are pairs (day ordinal, second   *)
(* of the day) as in Python's datetime.                                    *)
(***************************************************************************)
EXTENDS Integers, Sequences, FiniteSets, TLC

VARIABLES
    web,            \* what the remote side serves now: sitemap URL -> document
    changes,        \* how many times the remote content has changed
    local_offset,   \* the host's UTC offset in hours (astimezone of a naive value)
    stack,          \* the nested parse_sitemap generators, innermost last
    status,         \* of the walk: "idle", "running", "done" (exhausted), or the
                    \* name of the error that ended it
    pending,        \* the URL the walk has just yielded to its consumer, or None
    fetched,        \* sitemap URLs get_soup was called with during the walk
    failed,         \* some get_soup of the walk returned None
    yielded,        \* every URL the outermost parse_sitemap has yielded, in order
    pc,             \* "loop", "site", "done" (run_all_scrapers) or "walk" (a bare walk)
    func,           \* index into scraper_functions
    selectors,      \* SELECTORS of the running scraper
    date_parser,    \* _parse_date of the running scraper
    pages,          \* the documents the remote side may serve for an article URL
    all_articles,   \* run_all_scrapers' result list
    articles,       \* the running scraper's result list
    processed_urls, \* the running scraper's set of processed URLs
    calls,          \* the URLs process_article was called with by the running scraper
    soup,           \* what get_soup returned to the last process_article call
    article         \* what the last process_article call returned

vars == << web, changes, local_offset, stack, status, pending, fetched, failed,
           yielded, pc, func, selectors, date_parser, pages, all_articles,
           articles, processed_urls, calls, soup, article >>

None == [kind |-> "None"]

(***************************************************************************)
(* Strings                                                                 *)
(***************************************************************************)
Digits == {"0", "1", "2", "3", "4", "5", "6", "7", "8", "9"}

UpperCase == <<"A","B","C","D","E","F","G","H","I","J","K","L","M",
               "N","O","P","Q","R","S","T","U","V","W","X","Y","Z">>

LowerCase == <<"a","b","c","d","e","f","g","h","i","j","k","l","m",
               "n","o","p","q","r","s","t","u","v","w","x","y","z">>

\* str.lower() of one character
LowerChar(c) ==
    IF \E k \in 1..Len(UpperCase) : UpperCase[k] = c
    THEN LowerCase[CHOOSE k \in 1..Len(UpperCase) : UpperCase[k] = c]
    ELSE c

\* str.lower()
Lower(s) == [k \in 1..Len(s) |-> LowerChar(s[k])]

\* the literal lit occurs in s starting at position k
MatchAt(s, k, lit) ==
    /\ k >= 1
    /\ k + Len(lit) - 1 <= Len(s)
    /\ \A j \in 1..Len(lit) : s[k + j - 1] = lit[j]

\* lit in s
Contains(s, lit) == \E k \in 1..(Len(s) + 1) : MatchAt(s, k, lit)

\* the position of the first occurrence of lit in s (Contains(s, lit) assumed)
FirstIndex(s, lit) ==
    CHOOSE k \in 1..(Len(s) + 1) :
        /\ MatchAt(s, k, lit)
        /\ \A j \in 1..(k - 1) : ~MatchAt(s, j, lit)

\* s.split(sep): the parts between the occurrences of sep, found left to right
RECURSIVE Split(_, _)
Split(s, sep) ==
    IF ~Contains(s, sep) THEN << s >>
    ELSE LET k == FirstIndex(s, sep)
         IN  << SubSeq(s, 1, k - 1) >> \o Split(SubSeq(s, k + Len(sep), Len(s)), sep)

\* sep.join(parts)
RECURSIVE Join(_, _)
Join(parts, sep) ==
    IF parts = << >> THEN << >>
    ELSE IF Len(parts) = 1 THEN parts[1]
    ELSE parts[1] \o sep \o Join(Tail(parts), sep)

WhiteSpace == {" ", "\t", "\n"}

RECURSIVE LStrip(_)
LStrip(s) == IF s # <<>> /\ Head(s) \in WhiteSpace THEN LStrip(Tail(s)) ELSE s

RECURSIVE RStrip(_)
RStrip(s) ==
    IF s # <<>> /\ s[Len(s)] \in WhiteSpace
    THEN RStrip(SubSeq(s, 1, Len(s) - 1))
    ELSE s

\* str.strip()
Strip(s) == RStrip(LStrip(s))

(***************************************************************************)
(* The keyword lists and the regular expressions                           *)
(***************************************************************************)
FIRM_KEYWORDS ==
    << <<"v","c","b">>,
       <<"h","p","g">>,
       <<"f","p","t">>,
       <<"v","i","c">>,
       <<"v","n","m">>,
       <<"b","i","d">>,
       <<"c","t","g">>,
       <<"m","w","g">>,
       <<"s","s","i">>,
       <<"t","c","b">>,
       <<"v","p","b">>,
       <<"m","b","b">>,
       <<"a","c","b">>,
       <<"e","i","b">>,
       <<"s","t","b">>,
       <<"h","d","b">>,
       <<"v","i","b">>,
       <<"g","a","s">>,
       <<"p","l","x">>,
       <<"p","o","w">>,
       <<"g","v","r">>,
       <<"v","r","e">>,
       <<"v","h","m">>,
       <<"m","s","n">>,
       <<"s","a","b">>,
       <<"b","v","h">>,
       <<"t","p","b">>,
       <<"p","d","r">>,
       <<"n","v","l">>,
       <<"k","d","h">> >>

MACRO_KEYWORDS ==
    << <<"l","a","i","-","s","u","a","t">>,
       <<"l","a","m","-","p","h","a","t">>,
       <<"g","d","p">>,
       <<"t","a","n","g","-","t","r","u","o","n","g","-","k","i","n","h","-","t","e">>,
       <<"t","y","-","g","i","a">>,
       <<"c","h","i","n","h","-","s","a","c","h","-","t","i","e","n","-","t","e">>,
       <<"v","n","d">>,
       <<"u","s","d">>,
       <<"v","n","-","i","n","d","e","x">>,
       <<"v","n","i","n","d","e","x">>,
       <<"c","h","u","n","g","-","k","h","o","a","n">>,
       <<"n","g","a","n","-","h","a","n","g","-","n","h","a","-","n","u","o","c">>,
       <<"t","r","a","i","-","p","h","i","e","u">>,
       <<"c","o","-","p","h","i","e","u">> >>

ALL_KEYWORDS_FILTER == FIRM_KEYWORDS \o MACRO_KEYWORDS

\* any(keyword in url_lower for keyword in ALL_KEYWORDS_FILTER)
AnyKeyword(url) ==
    \E url_lower \in {Lower(url)} :
        \E k \in 1..Len(ALL_KEYWORDS_FILTER) :
            Contains(url_lower, ALL_KEYWORDS_FILTER[k])

\* the alternatives (10|11|12)
Months101112 == { <<"1","0">>, <<"1","1">>, <<"1","2">> }

\* the alternative (20[0-1][0-9]|202[0-3]) at position k
MatchYear2000To2023(s, k) ==
    /\ k + 3 <= Len(s)
    /\ s[k] = "2"
    /\ s[k + 1] = "0"
    /\ \/ s[k + 2] \in {"0", "1"} /\ s[k + 3] \in Digits
       \/ s[k + 2] = "2" /\ s[k + 3] \in {"0", "1", "2", "3"}

\* the alternative -(2025)-(10|11|12)_(2025)_(10|11|12)-2025-10- at position
\* k: the three pattern lines are adjacent string literals with no | between
\* them, so Python joins them into this one alternative
MatchJoinedMonths(s, k) ==
    /\ MatchAt(s, k, <<"-","2","0","2","5","-">>)
    /\ \E m \in Months101112 : MatchAt(s, k + 6, m)
    /\ MatchAt(s, k + 8, <<"_","2","0","2","5","_">>)
    /\ \E m \in Months101112 : MatchAt(s, k + 14, m)
    /\ MatchAt(s, k + 16, <<"-","2","0","2","5","-","1","0","-">>)

\* RE_SITEMAP_OUT_OF_RANGE.search(s)
RE_SITEMAP_OUT_OF_RANGE(s) ==
    \E k \in 1..Len(s) :
        \/ MatchYear2000To2023(s, k)
        \/ MatchAt(s, k, <<"2","0","2","4">>)
        \/ MatchJoinedMonths(s, k)
        \/ MatchAt(s, k, <<"-","2","0","2","5","-","1","1","-">>)
        \/ MatchAt(s, k, <<"-","2","0","2","5","-","1","2","-">>)

SITEMAP_JUNK_LITERALS ==
    << <<"g","o","o","g","l","e","-","n","e","w","s","-","s","i","t","e","m","a","p",".","x","m","l">>,
       <<"l","a","t","e","s","t","-","n","e","w","s","-","s","i","t","e","m","a","p",".","x","m","l">>,
       <<"l","a","t","e","s","t","n","e","w","s","-","s","i","t","e","m","a","p",".","x","m","l">>,
       <<"c","a","t","e","g","o","r","y",".","r","s","s">>,
       <<"c","a","t","e","g","o","r","y","-","s","i","t","e","m","a","p",".","x","m","l">>,
       <<"s","i","t","e","m","a","p","a","r","t","i","c","l","e","s","-","s","i","t","e">>,
       <<"c","a","t","e","g","o","r","y","_","s","i","t","e","m","a","p">>,
       <<"t","o","p","i","c","s",".","x","m","l">>,
       <<"e","v","e","n","t","-","s","i","t","e","m","a","p",".","x","m","l">>,
       <<"c","a","t","e","g","o","r","i","e","s",".","x","m","l">> >>

\* RE_SITEMAP_JUNK.search(s)
RE_SITEMAP_JUNK(s) ==
    \E k \in 1..Len(SITEMAP_JUNK_LITERALS) : Contains(s, SITEMAP_JUNK_LITERALS[k])

\* RE_CAFEF_ARTICLE.search(s): -\d{10,}\.chn$
RE_CAFEF_ARTICLE(s) ==
    LET n == Len(s)
    IN  /\ MatchAt(s, n - 3, <<".","c","h","n">>)
        /\ \E k \in 1..(n - 14) :
              /\ s[k] = "-"
              /\ \A j \in (k + 1)..(n - 4) : s[j] \in Digits


(***************************************************************************)
(* Dates and times                                                         *)
(***************************************************************************)
SecondsPerDay == 24 * 3600

IsLeap(y) == y % 4 = 0 /\ (y % 100 # 0 \/ y % 400 = 0)

DaysInMonth(y, m) ==
    IF m = 2 THEN (IF IsLeap(y) THEN 29 ELSE 28)
    ELSE IF m \in {4, 6, 9, 11} THEN 30 ELSE 31

DaysBeforeYear(y) ==
    (y - 1) * 365 + ((y - 1) \div 4) - ((y - 1) \div 100) + ((y - 1) \div 400)

RECURSIVE DaysBeforeMonth(_, _)
DaysBeforeMonth(y, m) ==
    IF m = 1 THEN 0 ELSE DaysBeforeMonth(y, m - 1) + DaysInMonth(y, m - 1)

\* date.toordinal(); datetime.min and datetime.max are the days 0001-01-01 and
\* 9999-12-31
Ordinal(y, m, d) == DaysBeforeYear(y) + DaysBeforeMonth(y, m) + d

MINORDINAL == Ordinal(1, 1, 1)

MAXORDINAL == Ordinal(9999, 12, 31)

\* a point of the time line: day ordinal and second of that day
Instant(y, m, d, H, M, S) ==
    [ord |-> Ordinal(y, m, d), sec |-> H * 3600 + M * 60 + S]

\* the wall-clock fields of a parsed string as a point of the time line
Naive(f) == Instant(f.year, f.month, f.day, f.hour, f.minute, f.second)

Before(a, b) == a.ord < b.ord \/ (a.ord = b.ord /\ a.sec < b.sec)

AtMost(a, b) == a = b \/ Before(a, b)

\* the wall-clock value t taken at UTC offset hours, on the UTC time line
\* (not yet range-checked)
ShiftToUTC(t, hours) ==
    LET s == t.sec - hours * 3600
    IN  IF s < 0 THEN [ord |-> t.ord - 1, sec |-> s + SecondsPerDay]
        ELSE IF s >= SecondsPerDay THEN [ord |-> t.ord + 1, sec |-> s - SecondsPerDay]
        ELSE [ord |-> t.ord, sec |-> s]

InRange(t) == MINORDINAL <= t.ord /\ t.ord <= MAXORDINAL

Value(t) == [kind |-> "datetime", t |-> t]

Raise(e) == [kind |-> "raise", exc |-> e]

\* t.replace(tzinfo=timezone(timedelta(hours=h))).astimezone(timezone.utc):
\* OverflowError when the UTC value leaves [datetime.min, datetime.max]
AsTimezoneUTC(t, hours) ==
    LET u == ShiftToUTC(t, hours)
    IN  IF InRange(u) THEN Value(u) ELSE Raise("OverflowError")

START_DATE == Instant(2025, 1, 1, 0, 0, 0)

END_DATE == Instant(2025, 9, 30, 23, 59, 59)

START_DATE_FILTER == Instant(2024, 12, 1, 0, 0, 0)

(***************************************************************************)
(* Date strings.  A string is modelled by how the parsers read it:         *)
(*   "iso"     accepted by datetime.fromisoformat: wall-clock fields and,  *)
(*             when the string states one (aware), a UTC offset in hours   *)
(*             ("2024-12-01" is such a string, naive, with time 00:00:00)  *)
(*   "ymd"     rejected by fromisoformat, accepted by strptime with        *)
(*             '%Y-%m-%d' (such as "2025-9-30")                            *)
(*   "text"    a site's visible date text in format fmt                    *)
(*   "garbage" accepted by no parser;  "empty" the empty string            *)
(***************************************************************************)
Iso(y, m, d, H, M, S, offset) ==
    [kind |-> "iso", year |-> y, month |-> m, day |-> d,
     hour |-> H, minute |-> M, second |-> S, aware |-> TRUE, offset |-> offset]

IsoNaive(y, m, d, H, M, S) ==
    [kind |-> "iso", year |-> y, month |-> m, day |-> d,
     hour |-> H, minute |-> M, second |-> S, aware |-> FALSE, offset |-> 0]

Ymd(y, m, d) ==
    [kind |-> "ymd", year |-> y, month |-> m, day |-> d,
     hour |-> 0, minute |-> 0, second |-> 0, aware |-> FALSE, offset |-> 0]

Text(fmt, y, m, d, H, M) ==
    [kind |-> "text", fmt |-> fmt, year |-> y, month |-> m, day |-> d,
     hour |-> H, minute |-> M, second |-> 0, aware |-> FALSE, offset |-> 0]

Garbage == [kind |-> "garbage"]

Empty == [kind |-> "empty"]

\* datetime.fromisoformat(s).astimezone(timezone.utc); a naive value is taken
\* as local time of the host (offset local hours)
FromIsoAsUTC(s, local) ==
    IF s.kind = "iso"
    THEN AsTimezoneUTC(Naive(s), IF s.aware THEN s.offset ELSE local)
    ELSE Raise("ValueError")

\* _parse_datetime_sitemap(date_str)
ParseDatetimeSitemap(date_str, local) ==
    IF date_str.kind = "empty" THEN None
    ELSE LET r == FromIsoAsUTC(date_str, local)
         IN  IF r.kind = "raise" /\ r.exc = "ValueError"
             THEN IF date_str.kind = "ymd" THEN Value(Naive(date_str)) ELSE None
             ELSE r

\* _parse_datetime_meta(iso_date_str)
ParseDatetimeMeta(iso_date_str, local) ==
    IF iso_date_str.kind = "empty" THEN None
    ELSE LET r == FromIsoAsUTC(iso_date_str, local)
         IN  IF r.kind = "raise" /\ r.exc \in {"ValueError", "TypeError"}
             THEN None
             ELSE r

(***************************************************************************)
(* URLs of the modelled remote side                                        *)
(***************************************************************************)
\* 'https://cafef.vn/sitemap.xml'
URL_cafef ==
    <<"h","t","t","p","s",":","/","/","c","a","f","e","f",".","v","n","/","s","i","t","e","m","a","p",".","x","m","l">>

\* 'https://cafebiz.vn/sitemap.xml'
URL_cafebiz ==
    <<"h","t","t","p","s",":","/","/","c","a","f","e","b","i","z",".","v","n","/","s","i","t","e","m","a","p",".","x","m","l">>

\* 'https://vietstock.vn/sitemap.xml'
URL_vietstock ==
    <<"h","t","t","p","s",":","/","/","v","i","e","t","s","t","o","c","k",".","v","n","/","s","i","t","e","m","a","p",".","x","m","l">>

\* 'https://cafef.vn/sitemaps/sitemaps-2025-09-.xml'
URL_sm_2025_09 ==
    <<"h","t","t","p","s",":","/","/","c","a","f","e","f",".","v","n","/","s","i","t","e","m","a","p","s","/","s","i","t","e","m","a","p","s","-","2","0","2","5","-","0","9","-",".","x","m","l">>

\* 'https://cafef.vn/sitemaps/sitemaps-2025-08-.xml'
URL_sm_2025_08 ==
    <<"h","t","t","p","s",":","/","/","c","a","f","e","f",".","v","n","/","s","i","t","e","m","a","p","s","/","s","i","t","e","m","a","p","s","-","2","0","2","5","-","0","8","-",".","x","m","l">>

\* 'https://cafef.vn/sitemaps/sitemaps-2025-10-.xml'
URL_sm_2025_10 ==
    <<"h","t","t","p","s",":","/","/","c","a","f","e","f",".","v","n","/","s","i","t","e","m","a","p","s","/","s","i","t","e","m","a","p","s","-","2","0","2","5","-","1","0","-",".","x","m","l">>

\* 'https://cafef.vn/sitemaps/sitemaps-2025-11-.xml'
URL_sm_2025_11 ==
    <<"h","t","t","p","s",":","/","/","c","a","f","e","f",".","v","n","/","s","i","t","e","m","a","p","s","/","s","i","t","e","m","a","p","s","-","2","0","2","5","-","1","1","-",".","x","m","l">>

\* 'https://cafef.vn/sitemaps/category-sitemap.xml'
URL_sm_category ==
    <<"h","t","t","p","s",":","/","/","c","a","f","e","f",".","v","n","/","s","i","t","e","m","a","p","s","/","c","a","t","e","g","o","r","y","-","s","i","t","e","m","a","p",".","x","m","l">>

\* 'https://cafef.vn/vcb-tang-von-188250305153000123.chn'
URL_art_vcb ==
    <<"h","t","t","p","s",":","/","/","c","a","f","e","f",".","v","n","/","v","c","b","-","t","a","n","g","-","v","o","n","-","1","8","8","2","5","0","3","0","5","1","5","3","0","0","0","1","2","3",".","c","h","n">>

\* 'https://cafef.vn/thoi-tiet-188250305153000456.chn'
URL_art_weather ==
    <<"h","t","t","p","s",":","/","/","c","a","f","e","f",".","v","n","/","t","h","o","i","-","t","i","e","t","-","1","8","8","2","5","0","3","0","5","1","5","3","0","0","0","4","5","6",".","c","h","n">>

\* 'https://cafef.vn/gdp-quy-1.html'
URL_art_gdp ==
    <<"h","t","t","p","s",":","/","/","c","a","f","e","f",".","v","n","/","g","d","p","-","q","u","y","-","1",".","h","t","m","l">>

\* 'https://cafef.vn/VNINDEX-188250305153000999.chn'
URL_art_VNINDEX ==
    <<"h","t","t","p","s",":","/","/","c","a","f","e","f",".","v","n","/","V","N","I","N","D","E","X","-","1","8","8","2","5","0","3","0","5","1","5","3","0","0","0","9","9","9",".","c","h","n">>

\* 'https://cafebiz.vn/fpt-lai-lon-176250305153000789.chn'
URL_art_fpt ==
    <<"h","t","t","p","s",":","/","/","c","a","f","e","b","i","z",".","v","n","/","f","p","t","-","l","a","i","-","l","o","n","-","1","7","6","2","5","0","3","0","5","1","5","3","0","0","0","7","8","9",".","c","h","n">>

\* 'https://vietstock.vn/hpg-len-san.htm'
URL_art_hpg ==
    <<"h","t","t","p","s",":","/","/","v","i","e","t","s","t","o","c","k",".","v","n","/","h","p","g","-","l","e","n","-","s","a","n",".","h","t","m">>

(***************************************************************************)
(* Sitemap documents as BeautifulSoup shows them: whether a <sitemapindex> *)
(* tag occurs, the <url> entries and the <sitemap> entries, each with its  *)
(* <loc> and <lastmod> tags (None when the tag is missing).                *)
(***************************************************************************)
Tag(text) == [kind |-> "tag", text |-> text]

Entry(loc, lastmod) == [loc |-> loc, lastmod |-> lastmod]

Doc(index, urls, sitemaps) ==
    [kind |-> "soup", sitemapindex |-> index, url |-> urls, sitemap |-> sitemaps]

\* get_soup's choice of parser: url.endswith('.xml') or 'sitemap' in url
Parser(url) ==
    IF \/ MatchAt(url, Len(url) - 3, <<".","x","m","l">>)
       \/ Contains(url, <<"s","i","t","e","m","a","p">>)
    THEN "xml"
    ELSE "lxml"

\* get_soup(url), the outcomes: None after a requests.RequestException (the
\* URL is not served, a timeout, a status that is not 2xx), else the document
\* the remote side w serves, parsed
get_soup(w, url) ==
    {None} \cup
    (IF url \in DOMAIN w
     THEN {[kind |-> "soup", parser |-> Parser(url),
            sitemapindex |-> w[url].sitemapindex,
            url |-> w[url].url, sitemap |-> w[url].sitemap]}
     ELSE {})

Skip == [kind |-> "continue"]

Yield(url) == [kind |-> "yield", url |-> url]

\* lastmod_date < START_DATE_FILTER or lastmod_date > END_DATE
OutsideLastmodWindow(lastmod_date) ==
    Before(lastmod_date, START_DATE_FILTER) \/ Before(END_DATE, lastmod_date)

\* the body of parse_sitemap_links' loop for one entry: continue, yield url,
\* or the error _parse_datetime_sitemap lets through
LinksEntry(entry, is_sitemap_index, local) ==
    IF entry.loc = None THEN Skip
    ELSE
      LET url == Strip(entry.loc.text)
          lastmod_date ==
              IF entry.lastmod # None /\ entry.lastmod.text.kind # "empty"
              THEN ParseDatetimeSitemap(entry.lastmod.text, local)
              ELSE None
      IN  IF lastmod_date.kind = "raise" THEN lastmod_date
          ELSE IF lastmod_date # None /\ OutsideLastmodWindow(lastmod_date.t)
               THEN Skip
          ELSE IF ~is_sitemap_index /\ ~AnyKeyword(url) THEN Skip
          ELSE Yield(url)

(***************************************************************************)
(* What the remote side may serve.  A web maps the sitemap URLs it serves  *)
(* to documents; a URL outside its domain is not served.                   *)
(***************************************************************************)
NoLastmod(url) == Entry(Tag(url), None)

OtherSites ==
    URL_cafebiz :> Doc(FALSE, << NoLastmod(URL_art_fpt) >>, << >>)
    @@ URL_vietstock :>
         Doc(FALSE, << Entry(Tag(URL_art_hpg), Tag(Ymd(2025, 9, 30))) >>, << >>)

\* an index over two monthly sitemaps in range, one out of range by its name
\* and one junk; the article on VCB is listed by both monthly sitemaps
WebPlain ==
    URL_cafef :>
        Doc(TRUE, << >>,
            << NoLastmod(URL_sm_2025_09),
               NoLastmod(URL_sm_2025_11),
               NoLastmod(URL_sm_category),
               Entry(Tag(URL_sm_2025_08), Tag(Iso(2025, 8, 31, 0, 0, 0, 7))) >>)
    @@ URL_sm_2025_09 :>
        Doc(FALSE,
            << Entry(Tag(URL_art_vcb), Tag(Iso(2025, 3, 5, 15, 30, 0, 7))),
               NoLastmod(URL_art_weather),
               Entry(None, None) >>,
            << >>)
    @@ URL_sm_2025_08 :>
        Doc(FALSE,
            << NoLastmod(URL_art_vcb),
               Entry(Tag(URL_art_gdp), Tag(Iso(2025, 10, 1, 0, 0, 0, 0))),
               Entry(Tag(URL_art_VNINDEX), Tag(IsoNaive(2024, 12, 1, 0, 0, 0))) >>,
            << >>)
    @@ OtherSites

\* the root mixes <url> and <sitemap> entries under a <sitemapindex>, and the
\* September sitemap has itself become an index
WebReorganised ==
    URL_cafef :>
        Doc(TRUE, << NoLastmod(URL_art_weather) >>, << NoLastmod(URL_sm_2025_09) >>)
    @@ URL_sm_2025_09 :> Doc(TRUE, << >>, << NoLastmod(URL_sm_2025_10) >>)
    @@ URL_sm_2025_10 :> Doc(FALSE, << NoLastmod(URL_art_VNINDEX) >>, << >>)
    @@ URL_art_weather :> Doc(FALSE, << >>, << >>)
    @@ OtherSites

\* two roots are leaves with an entry whose lastmod cannot be moved to UTC
WebOverflow ==
    URL_cafef :>
        Doc(FALSE,
            << NoLastmod(URL_art_vcb),
               Entry(Tag(URL_art_VNINDEX), Tag(Iso(1, 1, 1, 0, 0, 0, 14))),
               NoLastmod(URL_art_gdp) >>,
            << >>)
    @@ URL_cafebiz :>
        Doc(FALSE,
            << NoLastmod(URL_art_fpt),
               Entry(Tag(URL_art_fpt), Tag(Iso(9999, 12, 31, 23, 59, 59, -12))) >>,
            << >>)
    @@ OtherSites

\* the root index lists itself after a leaf
WebCycle ==
    URL_cafef :>
        Doc(TRUE, << >>, << NoLastmod(URL_sm_2025_09), NoLastmod(URL_cafef) >>)
    @@ URL_sm_2025_09 :> Doc(FALSE, << NoLastmod(URL_art_vcb) >>, << >>)
    @@ OtherSites

Webs == {WebPlain, WebReorganised, WebOverflow, WebCycle}

\* the host's UTC offset in hours: UTC, or Indochina Time
LocalOffsets == {0, 7}

(***************************************************************************)
(* Article pages as BeautifulSoup shows them to process_article:           *)
(*   og_title   the <meta property="og:title"> tag, text its content       *)
(*              attribute (empty when the attribute is missing or empty)   *)
(*   title      the <title> tag                                            *)
(*   sel_title  the first match of selectors['title']                      *)
(*   meta_time  the <meta property="article:published_time"> tag, text its *)
(*              content attribute (Empty when missing or empty)            *)
(*   sel_time   the first match of selectors['time'], with its datetime    *)
(*              attribute (None when it has none) and its text             *)
(* each None when the document has no such tag.                            *)
(***************************************************************************)
Page(og_title, title, sel_title, meta_time, sel_time) ==
    [kind |-> "soup", parser |-> "lxml", og_title |-> og_title, title |-> title,
     sel_title |-> sel_title, meta_time |-> meta_time, sel_time |-> sel_time]

TimeTag(datetime, text) == [kind |-> "tag", datetime |-> datetime, text |-> text]

Str(s) == [kind |-> "str", s |-> s]

\* the site's _parse_date(date_str): a naive datetime when the text is in one
\* of the formats the site's strptime calls accept, else None; raises stands
\* for a parser handed to process_article that lets an error through
DateParse(parser, date_str) ==
    IF parser.raises THEN Raise("Exception")
    ELSE IF date_str.kind = "text" /\ date_str.fmt \in parser.formats
         THEN Value(Naive(date_str))
    ELSE None

Pipe == << "|" >>

Dash == << " ", "-", " " >>

\* a clean-up whose ' - ' rule is tried only when no '|' was found
CleanTitleTagExclusive(text) ==
    LET t0 == Strip(text)
        parts == Split(t0, Dash)
    IN  IF Contains(t0, Pipe) THEN Strip(Split(t0, Pipe)[1])
        ELSE IF Contains(t0, Dash) /\ Len(parts) > 1 /\ Len(parts[Len(parts)]) < 25
             THEN Strip(Join(SubSeq(parts, 1, Len(parts) - 1), Dash))
        ELSE t0

\* the clean-up of the <title> text (lines 167-173)
CleanTitleTag(text) ==
    LET t0 == Strip(text)
        t1 == IF Contains(t0, Pipe) THEN Strip(Split(t0, Pipe)[1]) ELSE t0
        parts == Split(t1, Dash)
    IN  IF Contains(t1, Dash)
        THEN IF Len(parts) > 1 /\ Len(parts[Len(parts)]) < 25
             THEN Strip(Join(SubSeq(parts, 1, Len(parts) - 1), Dash))
             ELSE t1
        ELSE t1

\* the title process_article resolves (lines 160-178): a string, empty when
\* no strategy gave one, or the KeyError of selectors['title']
ResolveTitle(page, sel) ==
    LET t_og == IF page.og_title # None /\ page.og_title.text # << >>
                THEN Strip(page.og_title.text)
                ELSE << >>
        t_tag == IF t_og # << >> THEN t_og
                 ELSE IF page.title # None THEN CleanTitleTag(page.title.text)
                 ELSE << >>
    IN  IF t_tag # << >> THEN Str(t_tag)
        ELSE IF "title" \notin DOMAIN sel THEN Raise("KeyError")
        ELSE IF page.sel_title # None THEN Str(Strip(page.sel_title.text))
        ELSE Str(<< >>)

\* a conversion that labels the naive value UTC without moving it
LocalizeNaiveAsUTC(timestamp_naive) == Value(timestamp_naive)

\* timestamp_naive.replace(tzinfo=UTC+7).astimezone(utc), and on any error
\* timestamp_naive.replace(tzinfo=utc) (lines 194-198)
LocalizeNaive(timestamp_naive) ==
    LET r == AsTimezoneUTC(timestamp_naive, 7)
    IN  IF r.kind = "raise" THEN Value(timestamp_naive) ELSE r

\* the timestamp the time element gives (lines 186-198)
TimeElementTimestamp(el, parser, local) ==
    LET t_attr == IF el.datetime # None
                  THEN ParseDatetimeMeta(el.datetime, local)
                  ELSE None
    IN  IF t_attr # None THEN t_attr
        ELSE LET timestamp_naive == DateParse(parser, el.text)
             IN  IF timestamp_naive.kind = "datetime"
                 THEN LocalizeNaive(timestamp_naive.t)
                 ELSE timestamp_naive

\* the timestamp process_article resolves (lines 180-198): a datetime, None,
\* or the error raised on the way
ResolveTimestamp(page, sel, parser, local) ==
    LET t_meta == IF page.meta_time # None /\ page.meta_time.text.kind # "empty"
                  THEN ParseDatetimeMeta(page.meta_time.text, local)
                  ELSE None
    IN  IF t_meta # None THEN t_meta
        ELSE IF "time" \notin DOMAIN sel THEN Raise("KeyError")
        ELSE IF page.sel_time # None
             THEN TimeElementTimestamp(page.sel_time, parser, local)
        ELSE None

\* a window that opens at the sitemap filter's date and excludes its last second
InDateWindowOfFilter(timestamp) ==
    AtMost(START_DATE_FILTER, timestamp) /\ Before(timestamp, END_DATE)

\* START_DATE <= timestamp <= END_DATE
InDateWindow(timestamp) == AtMost(START_DATE, timestamp) /\ AtMost(timestamp, END_DATE)

\* the try block of process_article (lines 160-209): the record, None (the
\* block falls through to line 214), or the error raised inside it
ProcessArticleTry(url, page, sel, parser, local) ==
    LET title == ResolveTitle(page, sel)
        timestamp == IF title.kind = "raise" THEN title
                     ELSE ResolveTimestamp(page, sel, parser, local)
    IN  IF title.kind = "raise" THEN title
        ELSE IF timestamp.kind = "raise" THEN timestamp
        ELSE IF title.s = << >> \/ timestamp = None THEN None
        ELSE IF InDateWindow(timestamp.t)
             THEN IF "source_name" \notin DOMAIN sel THEN Raise("KeyError")
                  ELSE [kind |-> "article", source |-> sel["source_name"],
                        url |-> url, title |-> title.s, timestamp |-> timestamp.t]
        ELSE None

\* a handler that lets the error through
ExceptExceptionReraise(r) == r

\* except Exception as e: logging.error(...), then return None (lines 211-214)
ExceptException(r) == IF r.kind = "raise" THEN None ELSE r

\* process_article(url, selectors, date_parser), page what get_soup(url) returned
process_article(url, page, sel, parser, local) ==
    IF page = None THEN None
    ELSE ExceptException(ProcessArticleTry(url, page, sel, parser, local))

(***************************************************************************)
(* Article pages the remote side may serve                                 *)
(***************************************************************************)
TitleVCB == << "V", "C", "B", " ", "t", "a", "n", "g", " ", "v", "o", "n" >>

\* og:title and article:published_time inside the window
PageGood ==
    Page(Tag(TitleVCB), None, None, Tag(Iso(2025, 3, 5, 15, 30, 0, 7)), None)

\* a title and nothing that gives a timestamp
PageNoTime ==
    Page(None, Tag(TitleVCB), None, None, None)

PagesServed == {PageGood, PageNoTime}

\* get_soup(url) for an article URL, the outcomes
get_page(served, url) ==
    {None} \cup {[p EXCEPT !.parser = Parser(url)] : p \in served}

\* 'https://vneconomy.vn/sitemap.xml'
URL_vneconomy ==
    <<"h","t","t","p","s",":","/","/","v","n","e","c","o","n","o","m","y",".","v","n","/","s","i","t","e","m","a","p",".","x","m","l">>

\* 'https://baodautu.vn/sitemap.xml'
URL_baodautu ==
    <<"h","t","t","p","s",":","/","/","b","a","o","d","a","u","t","u",".","v","n","/","s","i","t","e","m","a","p",".","x","m","l">>

\* 'https://nhadautu.vn/sitemap.xml'
URL_nhadautu ==
    <<"h","t","t","p","s",":","/","/","n","h","a","d","a","u","t","u",".","v","n","/","s","i","t","e","m","a","p",".","x","m","l">>

\* 'https://www.tinnhanhchungkhoan.vn/sitemap.xml'
URL_tinnhanhchungkhoan ==
    <<"h","t","t","p","s",":","/","/","w","w","w",".","t","i","n","n","h","a","n","h","c","h","u","n","g","k","h","o","a","n",".","v","n","/","s","i","t","e","m","a","p",".","x","m","l">>

\* 'https://thoibaotaichinhvietnam.vn/sitemap_site_1.xml'
URL_thoibaotaichinh ==
    <<"h","t","t","p","s",":","/","/","t","h","o","i","b","a","o","t","a","i","c","h","i","n","h","v","i","e","t","n","a","m",".","v","n","/","s","i","t","e","m","a","p","_","s","i","t","e","_","1",".","x","m","l">>

\* 'https://kinhtedothi.vn/sitemap.xml'
URL_kinhtedothi ==
    <<"h","t","t","p","s",":","/","/","k","i","n","h","t","e","d","o","t","h","i",".","v","n","/","s","i","t","e","m","a","p",".","x","m","l">>

(***************************************************************************)
(* The site scrapers: each one's constants and its _parse_date, and        *)
(* whether its loop first drops the URLs RE_CAFEF_ARTICLE does not match.  *)
(***************************************************************************)
SiteConfig(source_name, sitemaps, title, time, formats, url_filter) ==
    [SITEMAPS |-> sitemaps,
     SELECTORS |-> [title |-> title, time |-> time, source_name |-> source_name],
     parse_date |-> [formats |-> formats, raises |-> FALSE],
     url_filter |-> url_filter]

scrape_cafef ==
    SiteConfig("CafeF", << URL_cafef >>,
               "h1.title, h1.title-top-focus",
               "span.pdate, span.time-top-focus, span.date, span.time-source-detail",
               {"%d-%m-%Y - %H:%M %p", "%d/%m/%Y %H:%M"}, TRUE)

scrape_cafebiz ==
    SiteConfig("CafeBiz", << URL_cafebiz >>,
               "h1.title, h1.title-top-focus",
               "span.time, span.pdate, span.time-top-focus, span.date",
               {"%d/%m/%Y %H:%M %p", "%d/%m/%Y %H:%M"}, TRUE)

scrape_vietstock ==
    SiteConfig("Vietstock", << URL_vietstock >>,
               "h1.article-title",
               "span.date",
               {"%d/%m/%Y %H:%M"}, FALSE)

scrape_vneconomy ==
    SiteConfig("VnEconomy", << URL_vneconomy >>,
               "h1.name-detail",
               "p.date",
               {"%d/%m/%Y, %H:%M"}, FALSE)

scrape_baodautu ==
    SiteConfig("Bao Dau tu", << URL_baodautu >>,
               "div.title-detail",
               "span.post-time",
               {"%d/%m/%Y %H:%M"}, FALSE)

scrape_nhadautu ==
    SiteConfig("Nha dau tu", << URL_nhadautu >>,
               "h1#title_detail_check",
               "div.t.mr-3",
               {"%H:%M %d/%m/%Y"}, FALSE)

scrape_tinnhanhchungkhoan ==
    SiteConfig("Tin nhanh chung khoan", << URL_tinnhanhchungkhoan >>,
               "h1.article__header.cms-title",
               "time.time",
               {"%d/%m/%Y %H:%M"}, FALSE)

scrape_thoibaotaichinh ==
    SiteConfig("Thoi bao tai chinh", << URL_thoibaotaichinh >>,
               "h1.post-title",
               "span.format_date",
               {"%d/%m/%Y"}, FALSE)

scrape_kinhtedothi ==
    SiteConfig("Kinh te do thi", << URL_kinhtedothi >>,
               "h1.article-title",
               "div.article-published-on",
               {"%H:%M %d/%m/%Y"}, FALSE)

\* the list run_all_scrapers walks through
ALL_SCRAPERS ==
    << scrape_cafef,
       scrape_cafebiz,
       scrape_vietstock,
       scrape_vneconomy,
       scrape_baodautu,
       scrape_nhadautu,
       scrape_tinnhanhchungkhoan,
       scrape_thoibaotaichinh,
       scrape_kinhtedothi >>

\* how many of the nine scrapers a modelled run goes through, in the list's order
NumScrapers == 2

scraper_functions == SubSeq(ALL_SCRAPERS, 1, NumScrapers)

\* the depth of nested generators at which CPython raises RecursionError
\* (sys.getrecursionlimit(), which the program leaves as it is), scaled down
RecursionLimit == 4

\* how often the remote side changes what it serves during a run
MaxChanges == 1

(***************************************************************************)
(* The walk: parse_sitemap as a stack of generator frames.  A frame is in  *)
(* phase "start" (parse_sitemap entered), "links" (its for loop is about   *)
(* to start parse_sitemap_links) or "iter" (parse_sitemap_links is in its  *)
(* loop over entries, at entry i); index is the branch parse_sitemap took  *)
(* at line 132, is_sitemap_index what parse_sitemap_links saw at line 90.  *)
(***************************************************************************)
Frame(url) ==
    [url |-> url, phase |-> "start", index |-> FALSE,
     is_sitemap_index |-> FALSE, entries |-> << >>, i |-> 0]

Top == stack[Len(stack)]

Rest == SubSeq(stack, 1, Len(stack) - 1)

walkVars == << stack, status, pending, fetched, failed, yielded >>

siteVars == << selectors, date_parser, articles, processed_urls, calls, soup, article >>

\* the innermost generator is exhausted: its caller's loop goes on, and the
\* walk is over when it was the outermost
GeneratorReturn ==
    /\ stack' = Rest
    /\ status' = IF Len(stack) = 1 THEN "done" ELSE "running"

\* the error exc leaves every generator of the walk
GeneratorRaise(exc) ==
    /\ stack' = << >>
    /\ status' = exc

\* the walk, or its consumer, has ended with an error
Raised == status \notin {"idle", "running", "done"}

\* a walker that restarts the sitemap it is in instead of descending
RecurseIntoParent(sitemap_url, child_sitemap_url) == sitemap_url

\* yield from parse_sitemap(child_sitemap_url) (line 135): the URL of the
\* generator the index branch starts
RecurseInto(sitemap_url, child_sitemap_url) == child_sitemap_url

\* parse_sitemap up to its branch (lines 120-132)
ParseSitemap ==
    /\ status = "running"
    /\ pending = << >>
    /\ stack # << >>
    /\ Top.phase = "start"
    /\ IF RE_SITEMAP_JUNK(Top.url) \/ RE_SITEMAP_OUT_OF_RANGE(Top.url)
       THEN /\ GeneratorReturn
            /\ UNCHANGED << fetched, failed >>
       ELSE \E r \in get_soup(web, Top.url) :
              /\ fetched' = fetched \cup {Top.url}
              /\ IF r = None
                 THEN /\ GeneratorReturn
                      /\ failed' = TRUE
                 ELSE /\ stack' = [stack EXCEPT ![Len(stack)].phase = "links",
                                                ![Len(stack)].index = r.sitemapindex]
                      /\ UNCHANGED << status, failed >>
    /\ UNCHANGED << web, changes, local_offset, pending, yielded, pc, func, pages,
                    all_articles >>
    /\ UNCHANGED siteVars

\* parse_sitemap_links up to its loop (lines 86-93)
ParseSitemapLinks ==
    /\ status = "running"
    /\ pending = << >>
    /\ stack # << >>
    /\ Top.phase = "links"
    /\ \E r \in get_soup(web, Top.url) :
          /\ fetched' = fetched \cup {Top.url}
          /\ IF r = None
             THEN /\ GeneratorReturn
                  /\ failed' = TRUE
             ELSE /\ stack' = [stack EXCEPT
                        ![Len(stack)].phase = "iter",
                        ![Len(stack)].is_sitemap_index = r.sitemapindex,
                        ![Len(stack)].entries = IF r.url # << >> THEN r.url ELSE r.sitemap,
                        ![Len(stack)].i = 1]
                  /\ UNCHANGED << status, failed >>
    /\ UNCHANGED << web, changes, local_offset, pending, yielded, pc, func, pages,
                    all_articles >>
    /\ UNCHANGED siteVars

\* one turn of parse_sitemap_links' loop (lines 95-116) and what parse_sitemap
\* does with a URL it yields: recurse into it (line 135) or yield it (line 139)
LinksNext ==
    /\ status = "running"
    /\ pending = << >>
    /\ stack # << >>
    /\ Top.phase = "iter"
    /\ IF Top.i > Len(Top.entries)
       THEN /\ GeneratorReturn
            /\ UNCHANGED << pending, yielded >>
       ELSE LET out == LinksEntry(Top.entries[Top.i], Top.is_sitemap_index, local_offset)
                advanced == [stack EXCEPT ![Len(stack)].i = @ + 1]
            IN  IF out.kind = "raise"
                THEN /\ GeneratorRaise(out.exc)
                     /\ UNCHANGED << pending, yielded >>
                ELSE IF out.kind = "continue"
                THEN /\ stack' = advanced
                     /\ UNCHANGED << status, pending, yielded >>
                ELSE IF Top.index
                THEN /\ IF Len(stack) >= RecursionLimit
                        THEN GeneratorRaise("RecursionError")
                        ELSE /\ stack' = Append(advanced,
                                                Frame(RecurseInto(Top.url, out.url)))
                             /\ status' = status
                     /\ UNCHANGED << pending, yielded >>
                ELSE /\ stack' = advanced
                     /\ pending' = << out.url >>
                     /\ yielded' = Append(yielded, out.url)
                     /\ status' = status
    /\ UNCHANGED << web, changes, local_offset, fetched, failed, pc, func, pages,
                    all_articles >>
    /\ UNCHANGED siteVars

\* a caller that only collects what parse_sitemap yields takes the next URL
Collect ==
    /\ pc = "walk"
    /\ pending # << >>
    /\ pending' = << >>
    /\ UNCHANGED << web, changes, local_offset, stack, status, fetched, failed,
                    yielded, pc, func, pages, all_articles >>
    /\ UNCHANGED siteVars

\* the remote side changes what it serves
RemoteChange ==
    /\ pc = "site"
    /\ status = "running"
    /\ changes < MaxChanges
    /\ \E w \in Webs : w # web /\ web' = w
    /\ changes' = changes + 1
    /\ UNCHANGED << local_offset, pc, func, pages, all_articles >>
    /\ UNCHANGED walkVars
    /\ UNCHANGED siteVars

(***************************************************************************)
(* The site scrapers and run_all_scrapers                                  *)
(***************************************************************************)
\* for func in scraper_functions: func() starts (lines 236-239 of scrape_cafef)
RunScraper ==
    /\ pc = "loop"
    /\ func <= Len(scraper_functions)
    /\ LET site == scraper_functions[func]
       IN  /\ selectors' = site.SELECTORS
           /\ date_parser' = site.parse_date
           /\ stack' = << Frame(site.SITEMAPS[1]) >>
    /\ status' = "running"
    /\ pending' = << >>
    /\ fetched' = {}
    /\ failed' = FALSE
    /\ yielded' = << >>
    /\ articles' = << >>
    /\ processed_urls' = {}
    /\ calls' = << >>
    /\ pc' = "site"
    /\ UNCHANGED << web, changes, local_offset, func, pages, all_articles, soup, article >>

\* a scraper that remembers only the URLs that produced a record
MarkProcessedWhenRecord(processed, url, result) ==
    IF result # None THEN processed \cup {url} ELSE processed

\* processed_urls.add(url) (line 246)
MarkProcessed(processed, url, result) == processed \cup {url}

\* the body of the scraper's loop for the URL parse_sitemap yielded
\* (lines 240-247); an error process_article lets through leaves the scraper
ScraperBody ==
    /\ pc = "site"
    /\ pending # << >>
    /\ LET url == pending[1]
       IN  IF \/ scraper_functions[func].url_filter /\ ~RE_CAFEF_ARTICLE(url)
              \/ url \in processed_urls
           THEN UNCHANGED << stack, status, articles, processed_urls, calls, soup,
                             article >>
           ELSE \E page \in get_page(pages, url) :
                  /\ soup' = page
                  /\ calls' = Append(calls, url)
                  /\ article' = process_article(url, page, selectors, date_parser,
                                                local_offset)
                  /\ IF article'.kind = "raise"
                     THEN /\ GeneratorRaise(article'.exc)
                          /\ UNCHANGED << articles, processed_urls >>
                     ELSE /\ articles' = IF article' # None
                                         THEN Append(articles, article')
                                         ELSE articles
                          /\ processed_urls' = MarkProcessed(processed_urls, url, article')
                          /\ UNCHANGED << stack, status >>
    /\ pending' = << >>
    /\ UNCHANGED << web, changes, local_offset, fetched, failed, yielded, pc, func,
                    selectors, date_parser, pages, all_articles >>

\* func() returns its list: all_articles.extend(articles) (lines 500-502)
ScraperReturn ==
    /\ pc = "site"
    /\ status = "done"
    /\ all_articles' = all_articles \o articles
    /\ articles' = << >>
    /\ status' = "idle"
    /\ func' = func + 1
    /\ pc' = "loop"
    /\ UNCHANGED << web, changes, local_offset, stack, pending, fetched, failed,
                    yielded, selectors, date_parser, pages, processed_urls, calls,
                    soup, article >>

\* a run that salvages the list the failing scraper was building
AfterExceptKeepsPartial(all, partial) == all \o partial

\* all_articles once func() has raised: the except clause (lines 503-504)
\* only logs, and the list func was building is gone with its frame
AfterExcept(all, partial) == all

\* func() raises: the except clause logs, and the loop goes on
ScraperExcept ==
    /\ pc = "site"
    /\ Raised
    /\ all_articles' = AfterExcept(all_articles, articles)
    /\ articles' = << >>
    /\ status' = "idle"
    /\ func' = func + 1
    /\ pc' = "loop"
    /\ UNCHANGED << web, changes, local_offset, stack, pending, fetched, failed,
                    yielded, selectors, date_parser, pages, processed_urls, calls,
                    soup, article >>

\* the loop is over: return all_articles (lines 506-507)
RunReturn ==
    /\ pc = "loop"
    /\ func > Len(scraper_functions)
    /\ pc' = "done"
    /\ UNCHANGED << web, changes, local_offset, func, pages, all_articles >>
    /\ UNCHANGED walkVars
    /\ UNCHANGED siteVars

(***************************************************************************)
(* A run of run_all_scrapers                                               *)
(***************************************************************************)
Init ==
    /\ web \in Webs
    /\ changes = 0
    /\ local_offset \in LocalOffsets
    /\ stack = << >>
    /\ status = "idle"
    /\ pending = << >>
    /\ fetched = {}
    /\ failed = FALSE
    /\ yielded = << >>
    /\ pc = "loop"
    /\ func = 1
    /\ selectors = << >>
    /\ date_parser = None
    /\ pages = PagesServed
    /\ all_articles = << >>
    /\ articles = << >>
    /\ processed_urls = {}
    /\ calls = << >>
    /\ soup = None
    /\ article = None

Next ==
    \/ RunScraper
    \/ ParseSitemap
    \/ ParseSitemapLinks
    \/ LinksNext
    \/ ScraperBody
    \/ ScraperReturn
    \/ ScraperExcept
    \/ RunReturn
    \/ RemoteChange

Spec == Init /\ [][Next]_vars

(***************************************************************************)
(* parse_sitemap alone, consumed to exhaustion, of a remote side that does *)
(* not change                                                              *)
(***************************************************************************)
InitWalk ==
    /\ web \in Webs
    /\ changes = 0
    /\ local_offset \in LocalOffsets
    /\ stack = << Frame(URL_cafef) >>
    /\ status = "running"
    /\ pending = << >>
    /\ fetched = {}
    /\ failed = FALSE
    /\ yielded = << >>
    /\ pc = "walk"
    /\ func = 1
    /\ selectors = << >>
    /\ date_parser = None
    /\ pages = PagesServed
    /\ all_articles = << >>
    /\ articles = << >>
    /\ processed_urls = {}
    /\ calls = << >>
    /\ soup = None
    /\ article = None

NextWalk ==
    \/ ParseSitemap
    \/ ParseSitemapLinks
    \/ LinksNext
    \/ Collect

\* the interpreter runs a generator that can go on
SpecWalk == InitWalk /\ [][NextWalk]_vars /\ WF_vars(NextWalk)

(***************************************************************************)
(* Properties of a run of run_all_scrapers                                 *)
(***************************************************************************)
IsPrefix(s, t) == Len(s) <= Len(t) /\ SubSeq(t, 1, Len(s)) = s

NoRepeat(s) == \A i, j \in DOMAIN s : i # j => s[i] # s[j]

\* the step in which run_all_scrapers handles the error of the running scraper
ExceptStep == pc = "site" /\ Raised /\ pc' = "loop"

\* C2 as stated: when a scraper raises part-way, the records it had
\* accumulated before the failure are kept in the overall result and the run
\* goes on with the next site.
C2_PartialResultsKept ==
    [][ExceptStep => /\ all_articles' = all_articles \o articles
                     /\ func' = func + 1]_vars

\* C2 amended: when a scraper raises part-way, run_all_scrapers catches the
\* error, the failing site adds nothing to the overall result (the records it
\* had accumulated are dropped), the run goes on with the next site, and no
\* step ever removes a record of an earlier site from the overall result.
C2_PartialResultsDropped ==
    [][/\ IsPrefix(all_articles, all_articles')
       /\ (pc = "site" /\ Raised) => /\ all_articles' = all_articles
                                     /\ pc' = "loop"
                                     /\ func' = func + 1]_vars

\* a later scraper has raised after it had accumulated a record, and an
\* earlier scraper has contributed records
C2_Witness ==
    /\ pc = "site"
    /\ Raised
    /\ articles # << >>
    /\ all_articles # << >>

\* C6: within one run of a site scraper process_article is called at most
\* once for each URL, however often the walk yields it and whatever the
\* first call returned, and the site's list holds no two records of one URL.
C6_AtMostOncePerUrl ==
    /\ NoRepeat(calls)
    /\ \A i, j \in DOMAIN articles : i # j => articles[i].url # articles[j].url

\* the walk has yielded a URL twice, the scraper has taken both, and the call
\* for it produced no record
C6_Witness ==
    /\ pc = "site"
    /\ pending = << >>
    /\ \E i, j \in DOMAIN yielded :
          /\ i < j
          /\ yielded[i] = yielded[j]
          /\ \E k \in DOMAIN calls : calls[k] = yielded[i]
          /\ \A k \in DOMAIN articles : articles[k].url # yielded[i]

\* C9 as stated: every URL the walk yields has passed the keyword filter,
\* whatever the remote side answers to the two fetches of one sitemap URL.
C9_YieldedPassedKeywordFilter ==
    \A k \in DOMAIN yielded : AnyKeyword(yielded[k])

(***************************************************************************)
(* Properties of a walk of an unchanging remote side                       *)
(***************************************************************************)
\* the URLs the index branch recurses into from sitemap u when its fetches
\* succeed: none when u is rejected by name or is not an index
Listed(w, u, local) ==
    IF /\ u \in DOMAIN w
       /\ w[u].sitemapindex
       /\ ~RE_SITEMAP_JUNK(u)
       /\ ~RE_SITEMAP_OUT_OF_RANGE(u)
    THEN LET entries == IF w[u].url # << >> THEN w[u].url ELSE w[u].sitemap
         IN  { LinksEntry(entries[k], TRUE, local).url :
                 k \in { j \in DOMAIN entries :
                           LinksEntry(entries[j], TRUE, local).kind = "yield" } }
    ELSE {}

RECURSIVE Descendants(_, _, _, _)
Descendants(w, S, local, n) ==
    IF n = 0 THEN S
    ELSE Descendants(w, S \cup UNION { Listed(w, u, local) : u \in S }, local, n - 1)

\* some sitemap the walk from root reaches lists itself or an ancestor
Cyclic(w, root, local) ==
    LET n == Cardinality(DOMAIN w)
    IN  \E u \in Descendants(w, {root}, local, n) :
            u \in Descendants(w, Listed(w, u, local), local, n)

\* the remote sides, with the host offsets, whose hierarchy under the cafef
\* root has a cycle
CyclicHierarchies ==
    { h \in Webs \X LocalOffsets : Cyclic(h[1], URL_cafef, h[2]) }

HasCycle == << web, local_offset >> \in CyclicHierarchies

\* C10 as stated: the walk of an acyclic hierarchy ends, and the walk of a
\* hierarchy with a cycle, its fetches succeeding, never finishes.
C10_CyclicWalkNeverEnds ==
    /\ ~HasCycle => <>(status # "running")
    /\ [](HasCycle /\ ~failed => status = "running")

\* C10 amended: the walk of an acyclic hierarchy ends (exhausted, or with the
\* error of a lastmod that cannot be moved to UTC), failed fetches and
\* rejected children notwithstanding; the walk of a hierarchy with a cycle
\* never ends exhausted while its fetches succeed: it nests generators until
\* the interpreter's recursion limit and then ends with an error.
C10_CyclicWalkEndsInError ==
    /\ ~HasCycle => <>(status \in {"done", "OverflowError"})
    /\ [](HasCycle /\ ~failed => status # "done")
    /\ HasCycle => <>(failed \/ Raised)

\* the walk of the hierarchy with a cycle has ended with RecursionError, all
\* its fetches having succeeded
C10_Witness ==
    /\ pc = "walk"
    /\ HasCycle
    /\ ~failed
    /\ status = "RecursionError"

(***************************************************************************)
(* process_article on the pages of a leaf sitemap: scrape_cafef's loop     *)
(* over a sitemap of two articles, process_article being handed each       *)
(* selectors table and date parser a caller may hand it                    *)
(***************************************************************************)
Blank == << " " >>

OgTitles == {None, Tag(TitleVCB), Tag(Blank)}

TitleTags == {None, Tag(TitleVCB)}

SelTitles == {None, Tag(TitleVCB \o Blank)}

MetaTimes ==
    {None,
     Tag(Empty),
     Tag(Garbage),
     Tag(Iso(2025, 9, 30, 23, 59, 59, 0)),
     Tag(Iso(2025, 10, 1, 0, 0, 0, 0)),
     Tag(Iso(2025, 1, 1, 6, 59, 59, 7)),
     Tag(IsoNaive(2025, 1, 1, 3, 0, 0)),
     Tag(Iso(9999, 12, 31, 23, 59, 59, -12))}

SelTimes ==
    {None,
     TimeTag(None, Text("%d/%m/%Y %H:%M", 2025, 3, 5, 15, 30)),
     TimeTag(None, Text("%d/%m/%Y %H:%M", 2025, 1, 1, 6, 59)),
     TimeTag(None, Text("%d/%m/%Y %H:%M", 2025, 1, 1, 7, 0)),
     TimeTag(None, Text("%d/%m/%Y %H:%M", 2025, 10, 1, 6, 59)),
     TimeTag(None, Text("%d/%m/%Y %H:%M", 2025, 10, 1, 7, 0)),
     TimeTag(None, Text("%d/%m/%Y %H:%M", 1, 1, 1, 0, 0)),
     TimeTag(None, Text("%d/%m/%Y", 2025, 3, 5, 0, 0)),
     TimeTag(None, Garbage),
     TimeTag(Garbage, Text("%d/%m/%Y %H:%M", 2025, 3, 5, 15, 30)),
     TimeTag(Iso(2025, 3, 5, 8, 30, 0, 0), Garbage)}

\* every combination of title tags with three combinations of time tags, and
\* every combination of time tags with two combinations of title tags
ArticlePages ==
    { Page(og, tt, st, tm[1], tm[2]) :
        og \in OgTitles, tt \in TitleTags, st \in SelTitles,
        tm \in { << None, None >>,
                 << Tag(Iso(2025, 9, 30, 23, 59, 59, 0)), None >>,
                 << None, TimeTag(None, Text("%d/%m/%Y %H:%M", 2025, 3, 5, 15, 30)) >> } }
    \cup
    { Page(ti[1], None, ti[2], mt, se) :
        ti \in { << Tag(TitleVCB), None >>, << None, Tag(TitleVCB \o Blank) >> },
        mt \in MetaTimes, se \in SelTimes }

\* selectors tables: the site's own, and tables that lack a key
SelectorTables ==
    LET S == scrape_cafef.SELECTORS
    IN  {S,
         [time |-> S.time, source_name |-> S.source_name],
         [title |-> S.title, source_name |-> S.source_name],
         [title |-> S.title, time |-> S.time]}

\* date parsers: the site's own, and one that raises
DateParsers == {scrape_cafef.parse_date, [formats |-> {}, raises |-> TRUE]}

\* the sitemap of the two articles
WebArticles ==
    URL_cafef :>
        Doc(FALSE, << NoLastmod(URL_art_vcb), NoLastmod(URL_art_VNINDEX) >>, << >>)

InitArticle ==
    /\ web = WebArticles
    /\ changes = 0
    /\ local_offset \in LocalOffsets
    /\ stack = << Frame(URL_cafef) >>
    /\ status = "running"
    /\ pending = << >>
    /\ fetched = {}
    /\ failed = FALSE
    /\ yielded = << >>
    /\ pc = "site"
    /\ func = 1
    /\ selectors \in SelectorTables
    /\ date_parser \in DateParsers
    /\ \E p \in ArticlePages : pages = {p}
    /\ all_articles = << >>
    /\ articles = << >>
    /\ processed_urls = {}
    /\ calls = << >>
    /\ soup = None
    /\ article = None

NextArticle ==
    \/ ParseSitemap
    \/ ParseSitemapLinks
    \/ LinksNext
    \/ ScraperBody

SpecArticle == InitArticle /\ [][NextArticle]_vars

(***************************************************************************)
(* Properties of process_article                                           *)
(***************************************************************************)
\* the instant t as the days since 2025-01-01 and the second of the day
DayAndSecond(t) == << t.ord - Ordinal(2025, 1, 1), t.sec >>

NotAfter(a, b) == a[1] < b[1] \/ (a[1] = b[1] /\ a[2] <= b[2])

SevenHoursEarlier(a) ==
    IF a[2] >= 7 * 3600 THEN << a[1], a[2] - 7 * 3600 >>
    ELSE << a[1] - 1, a[2] + 17 * 3600 >>

\* 2025-01-01T00:00:00
WindowStart == << 0, 0 >>

\* 2025-09-30T23:59:59, the 273rd day of 2025
WindowEnd == << 272, 86399 >>

InWindow(a) == NotAfter(WindowStart, a) /\ NotAfter(a, WindowEnd)

RecordFields == {"kind", "source", "url", "title", "timestamp"}

\* r is a complete record with a trimmed, non-empty title and a timestamp
\* inside the window
FullRecordInWindow(r) ==
    /\ DOMAIN r = RecordFields
    /\ r.title # << >>
    /\ r.title = Strip(r.title)
    /\ InWindow(DayAndSecond(r.timestamp))

\* the document has no og:title with text
NoOgTitle(page) == page.og_title = None \/ Strip(page.og_title.text) = << >>

\* none of the three title strategies finds a tag with text
NoTitle(page) == NoOgTitle(page) /\ page.title = None /\ page.sel_title = None

\* no article:published_time that parses
MetaTimeUnusable(page) == page.meta_time \in {None, Tag(Empty), Tag(Garbage)}

\* none of the timestamp strategies finds a tag
NoTime(page) == MetaTimeUnusable(page) /\ page.sel_time = None

\* the time element is there and its datetime attribute, if any, does not parse
DatetimeAttrUnusable(page) ==
    page.sel_time # None /\ page.sel_time.datetime \in {None, Garbage}

\* C1: process_article returns a record only when a non-empty title and a
\* timestamp t with 2025-01-01T00:00:00Z <= t <= 2025-09-30T23:59:59Z were
\* resolved, and then a complete one; with no document, no title, no
\* timestamp or the timestamp 2025-10-01T00:00:00Z it returns None, and with
\* og:title and the timestamp 2025-09-30T23:59:59Z it returns the record.
C1_RecordOnlyInWindow ==
    /\ \A k \in DOMAIN articles : FullRecordInWindow(articles[k])
    /\ article # None => soup # None /\ FullRecordInWindow(article)
    /\ soup # None /\ NoTitle(soup) => article = None
    /\ soup # None /\ NoTime(soup) => article = None
    /\ soup # None /\ soup.meta_time = Tag(Iso(2025, 10, 1, 0, 0, 0, 0))
          => article = None
    /\ /\ soup # None
       /\ soup.meta_time = Tag(Iso(2025, 9, 30, 23, 59, 59, 0))
       /\ soup.og_title = Tag(TitleVCB)
       /\ "source_name" \in DOMAIN selectors
       => /\ article # None
          /\ DayAndSecond(article.timestamp) = WindowEnd

\* a record whose timestamp is the last second of the window has been
\* returned and appended
C1_Witness ==
    /\ article # None
    /\ DayAndSecond(article.timestamp) = WindowEnd
    /\ articles # << >>
    /\ articles[Len(articles)] = article

\* handling the document page with the table sel and the parser fails: no
\* document, no tag for the title or for the time, a selector key that is
\* needed and missing, a date parser that raises, a date string no parser
\* reads, or a date that cannot be moved to UTC
FailureCase(page, sel, parser) ==
    \/ page = None
    \/ /\ page # None
       /\ \/ NoTitle(page)
          \/ NoTime(page)
          \/ "title" \notin DOMAIN sel /\ NoOgTitle(page) /\ page.title = None
          \/ "time" \notin DOMAIN sel /\ MetaTimeUnusable(page)
          \/ "source_name" \notin DOMAIN sel
          \/ parser.raises /\ MetaTimeUnusable(page) /\ DatetimeAttrUnusable(page)
          \/ /\ MetaTimeUnusable(page)
             /\ DatetimeAttrUnusable(page)
             /\ page.sel_time.text = Garbage
          \/ page.meta_time = Tag(Iso(9999, 12, 31, 23, 59, 59, -12))

ParserRoute(page, sel, parser) ==
    /\ page # None
    /\ MetaTimeUnusable(page)
    /\ DatetimeAttrUnusable(page)
    /\ page.sel_time.text.kind = "text"
    /\ page.sel_time.text.fmt \in parser.formats
    /\ ~parser.raises
    /\ "time" \in DOMAIN sel

\* the wall-clock value the date text states
NaiveValue(text) ==
    DayAndSecond(Instant(text.year, text.month, text.day, text.hour, text.minute, 0))

\* C8: when the timestamp comes from the site's date parser, a record's
\* timestamp is the naive value less exactly 7 hours, and the record is
\* returned exactly when that UTC instant, not the naive value, lies in
\* [2025-01-01T00:00:00Z, 2025-09-30T23:59:59Z].
C8_NaiveIsIndochinaTime ==
    ParserRoute(soup, selectors, date_parser) =>
        LET utc == SevenHoursEarlier(NaiveValue(soup.sel_time.text))
        IN  /\ article # None => DayAndSecond(article.timestamp) = utc
            /\ soup.og_title = Tag(TitleVCB) /\ "source_name" \in DOMAIN selectors
                  => (article # None <=> InWindow(utc))

\* the date text 06:59 01/10/2025 has given a record
C8_Witness ==
    /\ ParserRoute(soup, selectors, date_parser)
    /\ soup.sel_time.text = Text("%d/%m/%Y %H:%M", 2025, 10, 1, 6, 59)
    /\ article # None
    /\ articles # << >>

(***************************************************************************)
(* process_article on documents whose title comes from the <title> tag     *)
(***************************************************************************)
SegA == << "A" >>

SegB == << "B" >>

\* 'Site'
SegSite == <<"S","i","t","e">>

\* 'Bao dien tu cua nguoi Vie', 25 characters
SegLong == <<"B","a","o"," ","d","i","e","n"," ","t","u"," ","c","u","a"," ","n","g","u","o","i"," ","V","i","e">>

PipeSpaced == << " ", "|", " " >>

TitleSeparators == {Dash, Pipe, PipeSpaced}

\* <title> texts of one, two and three segments, and one with blanks around
TitleTexts ==
    {SegA, SegLong}
    \cup { a \o s \o b :
             a \in {SegA, SegLong}, s \in TitleSeparators,
             b \in {SegB, SegSite, SegLong} }
    \cup { a \o s \o b \o r \o c :
             a \in {SegA, SegLong}, s \in TitleSeparators, b \in {SegB, SegLong},
             r \in TitleSeparators, c \in {SegSite, SegLong} }
    \cup { Blank \o SegA \o Dash \o SegB \o PipeSpaced \o SegSite \o Blank }

TitlePages ==
    { Page(None, Tag(text), None, Tag(Iso(2025, 3, 5, 15, 30, 0, 7)), None) :
        text \in TitleTexts }

InitTitle ==
    /\ web = WebArticles
    /\ changes = 0
    /\ local_offset \in LocalOffsets
    /\ stack = << Frame(URL_cafef) >>
    /\ status = "running"
    /\ pending = << >>
    /\ fetched = {}
    /\ failed = FALSE
    /\ yielded = << >>
    /\ pc = "site"
    /\ func = 1
    /\ selectors = scrape_cafef.SELECTORS
    /\ date_parser = scrape_cafef.parse_date
    /\ \E p \in TitlePages : pages = {p}
    /\ all_articles = << >>
    /\ articles = << >>
    /\ processed_urls = {}
    /\ calls = << >>
    /\ soup = None
    /\ article = None

SpecTitle == InitTitle /\ [][NextArticle]_vars

\* the title of the returned record comes from the <title> tag
TitleFromTag ==
    /\ soup # None
    /\ soup.og_title = None
    /\ soup.title # None
    /\ article # None

\* the trimmed segment of t before its first '|'
BeforeFirstPipe(t) == Strip(SubSeq(t, 1, FirstIndex(t, Pipe) - 1))

\* the last of the parts of t between its ' - '
LastPart(t) == Split(t, Dash)[Len(Split(t, Dash))]

\* t without its last ' - ' and the part after it, trimmed
WithoutLastPart(t) == Strip(SubSeq(t, 1, Len(t) - Len(LastPart(t)) - Len(Dash)))

\* the ' - ' rule: the last part is dropped when it is shorter than 25 characters
DashRule(t) ==
    IF Contains(t, Dash) /\ Len(LastPart(t)) < 25 THEN WithoutLastPart(t) ELSE t

\* C5 as stated: the two clean-up rules exclude each other: with a '|' in the
\* text the title is exactly the trimmed segment before the first '|', and
\* the ' - ' rule is applied only to a text without '|'.
C5_RulesExclusive ==
    TitleFromTag =>
        LET t0 == Strip(soup.title.text)
        IN  article.title = IF Contains(t0, Pipe) THEN BeforeFirstPipe(t0)
                            ELSE DashRule(t0)

\* C5 amended: the two clean-up rules are applied one after the other: with
\* a '|' in the text only the trimmed segment before the first '|' is kept,
\* and then, whether or not a '|' was cut, a last ' - ' part shorter than 25
\* characters is dropped from what is left ('A - B | Site' gives 'A'); a
\* text with neither is returned trimmed and otherwise unchanged.
C5_RulesInSequence ==
    TitleFromTag =>
        LET t0 == Strip(soup.title.text)
            t1 == IF Contains(t0, Pipe) THEN BeforeFirstPipe(t0) ELSE t0
        IN  /\ article.title = DashRule(t1)
            /\ ~Contains(t0, Pipe) /\ ~Contains(t0, Dash) => article.title = t0

\* the text ' A - B | Site ' has given the title 'A'
C5_Witness ==
    /\ TitleFromTag
    /\ soup.title.text = Blank \o SegA \o Dash \o SegB \o PipeSpaced \o SegSite \o Blank
    /\ article.title = SegA

(***************************************************************************)
(* parse_sitemap on sitemaps named after a year and a month                *)
(***************************************************************************)
\* 'https://cafef.vn/sitemaps/sitemaps'
SitemapNamePrefix ==
    <<"h","t","t","p","s",":","/","/","c","a","f","e","f",".","v","n","/","s","i","t","e","m","a","p","s","/","s","i","t","e","m","a","p","s">>

NameYears ==
    { <<"1","9","9","9">>,
      <<"2","0","0","0">>,
      <<"2","0","1","9">>,
      <<"2","0","2","0">>,
      <<"2","0","2","3">>,
      <<"2","0","2","4">>,
      <<"2","0","2","5">>,
      <<"2","0","2","6">> }

NameMonths ==
    { <<"0","9">>, <<"1","0">>, <<"1","1">>, <<"1","2">> }

DotXml == << ".", "x", "m", "l" >>

\* 'https://cafef.vn/sitemaps/sitemaps-2025-10-.xml' and the like, with '-'
\* or '_' around the year and the month
SitemapNames ==
    { SitemapNamePrefix \o s \o y \o s \o m \o s \o DotXml :
        s \in { << "-" >>, << "_" >> }, y \in NameYears, m \in NameMonths }

\* each of them is served, a leaf with one article
WebNamed == [u \in SitemapNames |-> Doc(FALSE, << NoLastmod(URL_art_vcb) >>, << >>)]

InitFilter ==
    /\ web = WebNamed
    /\ changes = 0
    /\ local_offset \in LocalOffsets
    /\ \E u \in SitemapNames : stack = << Frame(u) >>
    /\ status = "running"
    /\ pending = << >>
    /\ fetched = {}
    /\ failed = FALSE
    /\ yielded = << >>
    /\ pc = "walk"
    /\ func = 1
    /\ selectors = << >>
    /\ date_parser = None
    /\ pages = PagesServed
    /\ all_articles = << >>
    /\ articles = << >>
    /\ processed_urls = {}
    /\ calls = << >>
    /\ soup = None
    /\ article = None

SpecFilter == InitFilter /\ [][NextWalk]_vars

\* the four digits of the years 2000 to 2024
Years2000To2024 ==
    { << "2", "0", a, b >> : a \in {"0", "1"}, b \in Digits }
    \cup { << "2", "0", "2", b >> : b \in {"0", "1", "2", "3", "4"} }

\* the month markers of October, November and December 2025 in both forms
MonthMarkers2025 ==
    { s \o << "2", "0", "2", "5" >> \o s \o m \o s :
        s \in { << "-" >>, << "_" >> }, m \in Months101112 }

\* u holds a year 2000 to 2024 or a marker of the last three months of 2025
NamedOutOfRange(u) ==
    \/ \E y \in Years2000To2024 : Contains(u, y)
    \/ \E k \in MonthMarkers2025 : Contains(u, k)

\* C3: parse_sitemap rejects, with no fetch and nothing yielded, every
\* sitemap URL that holds a year 2000 to 2024 or a marker -2025-MM- or
\* _2025_MM_ with MM 10, 11 or 12.
C3_OutOfRangeNeverFetched ==
    /\ \A u \in fetched : ~NamedOutOfRange(u)
    /\ \A k \in DOMAIN stack :
          NamedOutOfRange(stack[k].url) => stack[k].phase = "start"

(***************************************************************************)
(* parse_sitemap_links on leaf sitemaps of two entries                     *)
(***************************************************************************)
EntryLocs == {None, Tag(URL_art_vcb), Tag(URL_art_weather), Tag(URL_art_VNINDEX)}

EntryLastmods ==
    {None,
     Tag(Empty),
     Tag(Garbage),
     Tag(Iso(2024, 11, 30, 23, 59, 59, 0)),
     Tag(Iso(2024, 12, 1, 0, 0, 0, 0)),
     Tag(Iso(2024, 12, 1, 6, 59, 59, 7)),
     Tag(Iso(2025, 9, 30, 23, 59, 59, 0)),
     Tag(Iso(2025, 10, 1, 0, 0, 0, 0)),
     Tag(IsoNaive(2024, 12, 1, 0, 0, 0)),
     Tag(Ymd(2025, 9, 30)),
     Tag(Iso(9999, 12, 31, 23, 59, 59, -12))}

LeafEntries == { Entry(loc, lastmod) : loc \in EntryLocs, lastmod \in EntryLastmods }

InitLinks ==
    /\ \E e1, e2 \in LeafEntries : web = URL_cafef :> Doc(FALSE, << e1, e2 >>, << >>)
    /\ changes = 0
    /\ local_offset \in LocalOffsets
    /\ stack = << Frame(URL_cafef) >>
    /\ status = "running"
    /\ pending = << >>
    /\ fetched = {}
    /\ failed = FALSE
    /\ yielded = << >>
    /\ pc = "walk"
    /\ func = 1
    /\ selectors = << >>
    /\ date_parser = None
    /\ pages = PagesServed
    /\ all_articles = << >>
    /\ articles = << >>
    /\ processed_urls = {}
    /\ calls = << >>
    /\ soup = None
    /\ article = None

SpecLinks == InitLinks /\ [][NextWalk]_vars

\* the instant the date string d states, read as UTC when it states no
\* offset, as the days since 2025-01-01 and the second of the day
StatedInstant(d) ==
    LET day == Ordinal(d.year, d.month, d.day) - Ordinal(2025, 1, 1)
        sec == d.hour * 3600 + d.minute * 60 + d.second - d.offset * 3600
    IN  IF sec < 0 THEN << day - 1, sec + 86400 >>
        ELSE IF sec >= 86400 THEN << day + 1, sec - 86400 >>
        ELSE << day, sec >>

\* 2024-12-01T00:00:00, 31 days before 2025-01-01
FilterStart == << -31, 0 >>

\* the entry states no date, or one within [2024-12-01T00:00:00Z,
\* 2025-09-30T23:59:59Z]
LastmodAbsentOrInRange(e) ==
    \/ e.lastmod = None
    \/ e.lastmod.text.kind \in {"empty", "garbage"}
    \/ /\ e.lastmod.text.kind \in {"iso", "ymd"}
       /\ NotAfter(FilterStart, StatedInstant(e.lastmod.text))
       /\ NotAfter(StatedInstant(e.lastmod.text), WindowEnd)

\* the entries of a leaf that C4 says are yielded
ToBeYielded(e) ==
    /\ e.loc # None
    /\ LastmodAbsentOrInRange(e)
    /\ \E k \in DOMAIN ALL_KEYWORDS_FILTER :
          Contains(Lower(e.loc.text), ALL_KEYWORDS_FILTER[k])

\* C4: from a leaf that was fetched, parse_sitemap_links yields the URL of
\* an entry exactly when the entry has a loc, its lastmod is absent or
\* within [2024-12-01T00:00:00Z, 2025-09-30T23:59:59Z], and the lowercased
\* URL holds a keyword.
C4_LeafYieldsExactly ==
    status # "running" /\ ~failed =>
        LET kept == SelectSeq(web[URL_cafef].url, ToBeYielded)
        IN  yielded = [k \in DOMAIN kept |-> Strip(kept[k].loc.text)]
====
